---- MODULE Spec2Model ----
(***************************************************************************)
(* Model of the voiceTrimmer Telegram bot: the per-participant session      *)
(* kept in context.user_data (src/src/bot.py) and the conversion pipeline   *)
(* of AudioProcessor (src/src/audio_processor.py).                          *)
(*                                                                          *)
(* The bot runs on one asyncio event loop (bot.py:283-287) and the          *)
(* Application is built without concurrent updates (bot.py:265), so one     *)
(* handler runs at a time.  A handler is split only at the two blocking     *)
(* subprocess.run calls (ffprobe, ffmpeg); the frame h holds the locals of  *)
(* the handler that is running or that returned last.                       *)
(***************************************************************************)
EXTENDS Integers, Sequences, FiniteSets, TLC

\* ---------------------------------------------------------------- bounds
NumParticipants == 2

Participants == 1..NumParticipants
\* names of temporary directories.  mkdtemp never returns a name that exists
\* or that it returned before; a name matters only while it exists or while a
\* session remembers it, so two names per participant are enough: the one its
\* session may remember and the one its running handler creates
Dirs == 1..(2 * NumParticipants)

\* ------------------------------------------------------------- constants
MAX_DURATION == 60
MIN_DURATION == 1
MaxUploadBytes == 50 * 1024 * 1024

\* user_data.get(key) of an absent key, and the value None: both are falsy
NoPath == 0
NoDuration == 0
\* a file that does not exist / a length that was never computed
NoFile == -1
\* audio.file_size is optional in the transport's payload
SizeUnknown == -1

\* ---------------------------------------------------------------- inputs
\* actual durations (seconds) of the files participants upload
Durations == {30, 90}
Sizes == {SizeUnknown, MaxUploadBytes, MaxUploadBytes + 1}
NetOutcomes == {"ok", "get_file_raises", "download_raises"}
DeliveryOutcomes == {"ok", "raises"}
Texts == { <<"a", "b", "c">>, <<"4", "5">>, <<"9", "9", "9", "9">>, <<"0">>,
           <<" ", "6", "0", " ">>, <<"6", "1">>, <<"-", "5">> }

\* -------------------------------------------------------- int(text)
DigitChars == {"0", "1", "2", "3", "4", "5", "6", "7", "8", "9"}
DigitVal == ("0" :> 0) @@ ("1" :> 1) @@ ("2" :> 2) @@ ("3" :> 3) @@ ("4" :> 4)
            @@ ("5" :> 5) @@ ("6" :> 6) @@ ("7" :> 7) @@ ("8" :> 8) @@ ("9" :> 9)

RECURSIVE StripLeft(_)
StripLeft(t) == IF t # <<>> /\ Head(t) = " " THEN StripLeft(Tail(t)) ELSE t

RECURSIVE StripRight(_)
StripRight(t) ==
  IF t # <<>> /\ t[Len(t)] = " " THEN StripRight(SubSeq(t, 1, Len(t) - 1)) ELSE t

Strip(t) == StripRight(StripLeft(t))

RECURSIVE DigitsValue(_, _)
DigitsValue(t, acc) ==
  IF t = <<>> THEN acc ELSE DigitsValue(Tail(t), 10 * acc + DigitVal[Head(t)])

AllDigits(t) == t # <<>> /\ \A i \in 1..Len(t) : t[i] \in DigitChars

\* int(update.message.text): surrounding blanks are stripped, one sign is
\* allowed, the rest must be decimal digits; ok = FALSE stands for ValueError
ParseInt(text) ==
  LET s == Strip(text)
      signed == s # <<>> /\ Head(s) \in {"+", "-"}
      body == IF signed THEN Tail(s) ELSE s
  IN  IF AllDigits(body)
        THEN [ok |-> TRUE,
              value |-> IF signed /\ Head(s) = "-" THEN 0 - DigitsValue(body, 0)
                        ELSE DigitsValue(body, 0)]
        ELSE [ok |-> FALSE, value |-> 0]

InRangeOpen(duration) == duration >= 1

InRangeNoLower(duration) == duration <= MAX_DURATION

\* bot.py:189, negated: the reply is accepted as a duration
InRange(duration) == ~(duration < 1 \/ duration > MAX_DURATION)

\* ------------------------------------------------------------------ state
VARIABLES user_data, fs, h, consumed

\* consumed[p] is history, not program state: the target_duration stored in
\* p's session has already been passed to convert_to_voice

vars == <<user_data, fs, h, consumed>>

EmptySession == [processing |-> FALSE, file_path |-> NoPath, target_duration |-> NoDuration]

NoDir == [exists |-> FALSE, input |-> NoFile, output |-> NoFile]
NewDir == [exists |-> TRUE, input |-> NoFile, output |-> NoFile]

NoVoice == [sent |-> FALSE, length |-> 0, duration |-> 0, caption |-> 0]

NoFrame ==
  [op |-> "none", who |-> 1, pc |-> "none", pre |-> EmptySession, text |-> <<>>,
   size |-> SizeUnknown, ffmpeg |-> "none", out |-> NoFile, reused |-> FALSE,
   msgs |-> <<>>, temp_dir |-> NoPath, input_path |-> NoPath, site |-> "none",
   target |-> NoDuration, actual |-> NoFile, trim_end |-> NoFile, probe |-> "none", conv |-> "none",
   downloaded |-> FALSE, raised |-> FALSE, fault |-> FALSE, voice |-> NoVoice]

Init ==
  /\ user_data = [p \in Participants |-> EmptySession]
  /\ fs = [d \in Dirs |-> NoDir]
  /\ h = NoFrame
  /\ consumed = [p \in Participants |-> FALSE]

\* no handler is inside a blocking call: the event loop can take an update
Free == h.pc \in {"none", "done"}

NeverProcessing(s) == FALSE

\* context.user_data.get('processing')
IsProcessing(s) == s.processing

\* tempfile.TemporaryDirectory() in a handler of participant p: a name that
\* does not exist and that no session remembers
FreshDir(p) ==
  CHOOSE d \in {2 * p - 1, 2 * p} :
    /\ ~fs[d].exists
    /\ \A q \in Participants : user_data[q].file_path # d
    /\ (d = 2 * p) =>
          (fs[2 * p - 1].exists \/ \E q \in Participants : user_data[q].file_path = 2 * p - 1)

NeverTooLarge(size) == FALSE

\* bot.py:112: audio.file_size > 50 * 1024 * 1024
TooLarge(size) == size > MaxUploadBytes

AlwaysPending(s) == TRUE

\* bot.py:185: context.user_data.get('file_path')
HasPendingFile(s) == s.file_path # NoPath

KeepDir(f, d) == f

\* leaving the "with tempfile.TemporaryDirectory()" block, on any path
Cleanup(f, d) == IF d = NoPath THEN f ELSE [f EXCEPT ![d] = NoDir]

ClearProcessingOfAll(ud, p) ==
  [q \in Participants |-> [ud[q] EXCEPT !.processing = FALSE]]

\* context.user_data['processing'] = False: context.user_data is the
\* dictionary of the update's effective user
ClearProcessing(ud, p) == [ud EXCEPT ![p].processing = FALSE]

Frame(op, p) == [NoFrame EXCEPT !.op = op, !.who = p, !.pc = "done", !.pre = user_data[p]]

\* ----------------------------------------------------------------- /cancel
Cancel(p) ==
  /\ Free
  /\ IF IsProcessing(user_data[p])
       THEN /\ user_data' = ClearProcessing(user_data, p)
            /\ h' = [Frame("cancel", p) EXCEPT !.msgs = <<"cancelled">>]
       ELSE /\ user_data' = user_data
            /\ h' = [Frame("cancel", p) EXCEPT !.msgs = <<"nothing_to_cancel">>]
  /\ UNCHANGED <<fs, consumed>>

\* ----------------------------------------------------- file upload, part 1
\* handle_audio from its entry to the first blocking call (or to its return)
AudioStart(p, size, A, net) ==
  /\ Free
  /\ UNCHANGED consumed
  \* an input the path taken never reads is enumerated once: the transport
  \* is not called before the size test, the content not read before the
  \* download has succeeded
  /\ (IsProcessing(user_data[p]) \/ size = SizeUnknown \/ TooLarge(size)) => net = "ok"
  /\ (IsProcessing(user_data[p]) \/ size = SizeUnknown \/ TooLarge(size) \/ net # "ok")
        => \A B \in Durations : A <= B
  /\ LET pre == user_data[p]
         d == FreshDir(p)
         F == [Frame("audio", p) EXCEPT !.size = size]
         off == ClearProcessing(user_data, p)
     IN  IF IsProcessing(pre)
           THEN \* bot.py:94-98
                /\ h' = [F EXCEPT !.msgs = <<"busy">>]
                /\ UNCHANGED <<user_data, fs>>
         ELSE IF size = SizeUnknown
           THEN \* bot.py:112 compares None with an int: TypeError, bot.py:175-180
                /\ h' = [F EXCEPT !.msgs = <<"error_raw">>, !.raised = TRUE]
                /\ user_data' = off
                /\ UNCHANGED fs
         ELSE IF TooLarge(size)
           THEN \* bot.py:112-117
                /\ h' = [F EXCEPT !.msgs = <<"too_large">>]
                /\ user_data' = off
                /\ UNCHANGED fs
         ELSE IF net = "get_file_raises"
           THEN \* bot.py:122-123, then bot.py:175-180
                /\ h' = [F EXCEPT !.msgs = <<"downloading", "error_raw">>,
                                  !.raised = TRUE, !.fault = TRUE]
                /\ user_data' = off
                /\ UNCHANGED fs
         ELSE IF net = "download_raises"
           THEN \* bot.py:125-127: the directory exists, the download fails
                /\ h' = [F EXCEPT !.msgs = <<"downloading", "error_raw">>,
                                  !.raised = TRUE, !.fault = TRUE, !.temp_dir = d]
                /\ user_data' = off
                /\ fs' = Cleanup([fs EXCEPT ![d] = NewDir], d)
         ELSE IF pre.target_duration = NoDuration
           THEN \* bot.py:130-133: remember the path, then call get_duration
                /\ h' = [F EXCEPT !.msgs = <<"downloading">>, !.temp_dir = d,
                                  !.input_path = d, !.downloaded = TRUE,
                                  !.site = "prompt", !.pc = "probe"]
                /\ user_data' = [user_data EXCEPT ![p].processing = TRUE,
                                                  ![p].file_path = d]
                /\ fs' = [fs EXCEPT ![d] = [NewDir EXCEPT !.input = A]]
           ELSE \* bot.py:139-148: convert with the stored duration
                /\ h' = [F EXCEPT !.msgs = <<"downloading", "processing">>,
                                  !.temp_dir = d, !.input_path = d,
                                  !.downloaded = TRUE, !.site = "convert",
                                  !.target = pre.target_duration, !.pc = "probe",
                                  !.reused = consumed[p]]
                /\ user_data' = [user_data EXCEPT ![p].processing = TRUE]
                /\ fs' = [fs EXCEPT ![d] = [NewDir EXCEPT !.input = A]]

\* ------------------------------------------------------ text reply, part 1
\* handle_text from its entry to the first blocking call (or to its return)
TextStart(p, text) ==
  /\ Free
  /\ LET pre == user_data[p]
         d == FreshDir(p)
         F == [Frame("text", p) EXCEPT !.text = text]
         n == ParseInt(text)
     IN  IF ~HasPendingFile(pre)
           THEN \* bot.py:238-242
                /\ h' = [F EXCEPT !.msgs = <<"send_file_first">>]
                /\ UNCHANGED <<user_data, fs>>
         ELSE IF ~n.ok
           THEN \* bot.py:234-237
                /\ h' = [F EXCEPT !.msgs = <<"number_prompt">>]
                /\ UNCHANGED <<user_data, fs>>
         ELSE IF ~InRange(n.value)
           THEN \* bot.py:189-193
                /\ h' = [F EXCEPT !.msgs = <<"range_prompt">>]
                /\ UNCHANGED <<user_data, fs>>
           ELSE \* bot.py:195-208
                /\ h' = [F EXCEPT !.msgs = <<"processing">>, !.temp_dir = d,
                                  !.input_path = pre.file_path, !.site = "convert",
                                  !.target = n.value, !.pc = "probe"]
                /\ user_data' = [user_data EXCEPT ![p].target_duration = n.value]
                /\ fs' = [fs EXCEPT ![d] = NewDir]
  /\ consumed' = IF h'.site = "convert" THEN [consumed EXCEPT ![p] = TRUE] ELSE consumed

\* ------------------------------------------------------------- ffprobe
FileExists(path) == path # NoPath /\ fs[path].exists /\ fs[path].input # NoFile

\* what subprocess.run(ffprobe ...) can do: exit 0 with a parsable duration,
\* exit 0 with unparsable output, exit non-zero, time out, fail to launch.
\* ffprobe cannot report a duration of a file that is not there.
ProbeOutcomes(path) ==
  IF FileExists(path)
    THEN {"ok", "unparsable", "nonzero", "timeout", "oserror"}
    ELSE {"nonzero", "timeout", "oserror"}

\* the tool or its environment misbehaved (a missing input is not a fault
\* of the tool: it exits non-zero as it should)
ProbeFault(path, o) ==
  IF FileExists(path) THEN o # "ok" ELSE o \in {"timeout", "oserror"}

\* AudioProcessor.get_duration: None on non-zero exit, TimeoutExpired and
\* ValueError; an OSError of subprocess.run is not caught
GetDuration(path, o) ==
  [raised |-> o = "oserror",
   ok |-> o = "ok",
   value |-> IF o = "ok" THEN fs[path].input ELSE NoFile]

TrimEndPad(target_duration, actual_duration) == target_duration

\* audio_processor.py:95
TrimEnd(target_duration, actual_duration) ==
  IF target_duration <= actual_duration THEN target_duration ELSE actual_duration

\* convert_to_voice returned False: bot.py:150-155 and bot.py:210-214
ConvertFailed(g) ==
  /\ h' = [g EXCEPT !.pc = "done", !.conv = "failed", !.msgs = Append(@, "failed")]
  /\ user_data' = IF g.op = "audio"
                    THEN [user_data EXCEPT ![g.who].processing = FALSE]
                    ELSE user_data
  /\ fs' = Cleanup(fs, g.temp_dir)

\* the ffprobe call returns and the handler runs on
ProbeDone(o) ==
  /\ h.pc = "probe"
  /\ UNCHANGED consumed
  /\ o \in ProbeOutcomes(h.input_path)
  /\ LET r == GetDuration(h.input_path, o)
         g == [h EXCEPT !.probe = o,
                        !.fault = @ \/ ProbeFault(h.input_path, o)]
     IN  IF h.site = "prompt"
           THEN IF r.raised
                  THEN \* bot.py:133 raises, bot.py:175-180
                       /\ h' = [g EXCEPT !.pc = "done", !.raised = TRUE,
                                         !.msgs = Append(@, "error_raw")]
                       /\ user_data' = [user_data EXCEPT ![h.who].processing = FALSE]
                       /\ fs' = Cleanup(fs, h.temp_dir)
                  ELSE \* bot.py:132-136
                       /\ h' = [g EXCEPT !.pc = "done",
                                         !.msgs = Append(@, IF r.ok THEN "prompt_duration"
                                                            ELSE "prompt_duration_None")]
                       /\ fs' = Cleanup(fs, h.temp_dir)
                       /\ UNCHANGED user_data
         ELSE IF r.raised \/ ~r.ok
           THEN \* audio_processor.py:90-92 and 139-141
                ConvertFailed(g)
           ELSE \* audio_processor.py:95-118
                /\ h' = [g EXCEPT !.pc = "ffmpeg", !.actual = r.value,
                                  !.trim_end = TrimEnd(h.target, r.value)]
                /\ UNCHANGED <<user_data, fs>>

\* -------------------------------------------------------------- ffmpeg
FfmpegOutcomes == {"ok", "empty", "missing", "nonzero", "timeout", "oserror"}

\* the output file ffmpeg leaves behind: -t trim_end seconds of audio
FfmpegOutput(o, trim_end) ==
  IF o = "ok" THEN trim_end ELSE IF o = "empty" THEN 0 ELSE NoFile

ExitCodeOnly(o, out) == o \in {"ok", "empty", "missing"}

\* audio_processor.py:120-141
ConvertSucceeded(o, out) ==
  /\ o \in {"ok", "empty", "missing"}
  /\ out # NoFile
  /\ out # 0

ResetSession(s) == EmptySession

\* the ffmpeg call returns and the handler runs on
FfmpegDone(o, dl) ==
  /\ h.pc = "ffmpeg"
  /\ LET out == FfmpegOutput(o, h.trim_end)
         fs2 == [fs EXCEPT ![h.temp_dir].output = out]
         g == [h EXCEPT !.fault = @ \/ o # "ok" \/ dl # "ok",
                        !.ffmpeg = o, !.out = out]
     IN  IF ~ConvertSucceeded(o, out)
           THEN dl = "ok" /\ ConvertFailed(g)
         ELSE IF dl = "raises"
           THEN \* reply_voice raises: bot.py:175-180 or bot.py:244-246
                /\ h' = [g EXCEPT !.pc = "done", !.conv = "ok", !.raised = TRUE,
                           !.msgs = IF h.op = "audio"
                                      THEN @ \o <<"sending", "error_raw">>
                                      ELSE Append(@, "error_generic")]
                /\ user_data' = IF h.op = "audio"
                                  THEN [user_data EXCEPT ![h.who].processing = FALSE]
                                  ELSE user_data
                /\ fs' = Cleanup(fs2, h.temp_dir)
           ELSE \* bot.py:158-173 and bot.py:217-232
                /\ h' = [g EXCEPT !.pc = "done", !.conv = "ok",
                           !.msgs = IF h.op = "audio" THEN @ \o <<"sending", "done">> ELSE @,
                           !.voice = [sent |-> TRUE, length |-> fs2[h.temp_dir].output,
                                      duration |-> h.target, caption |-> h.target]]
                /\ user_data' = [user_data EXCEPT ![h.who] = ResetSession(@)]
                /\ fs' = Cleanup(fs2, h.temp_dir)
  /\ consumed' = IF user_data'[h.who].target_duration = NoDuration
                   THEN [consumed EXCEPT ![h.who] = FALSE]
                   ELSE consumed

\* ---------------------------------------------------------- specification
Next ==
  \/ \E p \in Participants : Cancel(p)
  \/ \E p \in Participants, size \in Sizes, A \in Durations, net \in NetOutcomes :
       AudioStart(p, size, A, net)
  \/ \E p \in Participants, text \in Texts : TextStart(p, text)
  \/ \E o \in {"ok", "unparsable", "nonzero", "timeout", "oserror"} : ProbeDone(o)
  \/ \E o \in FfmpegOutcomes, dl \in DeliveryOutcomes : FfmpegDone(o, dl)

Spec == Init /\ [][Next]_vars

TypeOK ==
  /\ user_data \in [Participants -> [processing : BOOLEAN,
                                     file_path : Dirs \cup {NoPath},
                                     target_duration : MIN_DURATION..MAX_DURATION \cup {NoDuration}]]
  /\ \A d \in Dirs : fs[d].exists \in BOOLEAN
  /\ h.pc \in {"none", "probe", "ffmpeg", "done"}
  /\ h.who \in Participants

\* ------------------------------------------------------------ vocabulary
\* the last handler has returned
Returned == h.pc = "done"

\* the session status Idle: nothing in progress, nothing stored
IsIdle(s) ==
  /\ ~s.processing
  /\ s.file_path = NoPath
  /\ s.target_duration = NoDuration

\* the handler that returned called convert_to_voice
ConversionAttempted == h.site = "convert"

\* the text is a whole number within [MIN_DURATION, MAX_DURATION]
ValidDurationText(text) ==
  /\ ParseInt(text).ok
  /\ ParseInt(text).value >= MIN_DURATION
  /\ ParseInt(text).value <= MAX_DURATION

Contains(msgs, m) == \E i \in 1..Len(msgs) : msgs[i] = m

\* any event of participant q
HandleEvent(q) ==
  \/ Cancel(q)
  \/ \E size \in Sizes, A \in Durations, net \in NetOutcomes : AudioStart(q, size, A, net)
  \/ \E text \in Texts : TextStart(q, text)

\* ------------------------------------------------------------------ C1
\* C1: after a handler that attempted a conversion (handle_text or
\* handle_audio called convert_to_voice) returns, whatever the outcome, the
\* participant's session is Idle: not processing, no pending file path, no
\* target duration.
C1_IdleAfterConversion ==
  (Returned /\ ConversionAttempted) => IsIdle(user_data[h.who])

\* ------------------------------------------------------------------ C2
\* C2: /cancel on a session that is not Idle leaves it Idle with every
\* optional field cleared and confirms; /cancel on an Idle session reports
\* that there is nothing to cancel.
C2_CancelClearsSession ==
  (Returned /\ h.op = "cancel") =>
     IF ~IsIdle(h.pre)
       THEN IsIdle(user_data[h.who]) /\ h.msgs = <<"cancelled">>
       ELSE user_data[h.who] = h.pre /\ h.msgs = <<"nothing_to_cancel">>

\* ------------------------------------------------------------------ C3
\* C3: a session that holds a freshly uploaded file and receives a whole
\* number d in [MIN_DURATION, MAX_DURATION], with the tools and the transport
\* working, gets a voice reply of length min(d, A), A the actual duration of
\* the input, and ends Idle.
C3_EndToEndFlow ==
  (/\ Returned
   /\ h.op = "text"
   /\ h.pre.processing
   /\ h.pre.file_path # NoPath
   /\ h.pre.target_duration = NoDuration
   /\ ValidDurationText(h.text)
   /\ ~h.fault)
  => /\ h.voice.sent
     /\ h.voice.length <= ParseInt(h.text).value
     /\ h.voice.length <= h.actual
     /\ h.voice.length \in {ParseInt(h.text).value, h.actual}
     /\ IsIdle(user_data[h.who])

\* ------------------------------------------------------------------ C4
\* C4: a file upload handled while the processing flag is set is answered
\* with the busy message only, downloads nothing, creates no temporary
\* directory, starts no conversion and leaves the session as it was.
C4_BusyUploadRejected ==
  (h.op = "audio" /\ h.pre.processing) =>
     /\ Returned
     /\ h.msgs = <<"busy">>
     /\ ~h.downloaded
     /\ h.temp_dir = NoPath
     /\ ~ConversionAttempted
     /\ user_data[h.who] = h.pre

C4_Witness ==
  /\ Returned
  /\ h.op = "audio"
  /\ h.pre.processing
  /\ h.pre.file_path # NoPath
  /\ h.msgs = <<"busy">>

\* ------------------------------------------------------------------ C5
\* C5: with a file pending, a text that is not a whole number, or is one
\* outside [MIN_DURATION, MAX_DURATION], gets a corrective prompt, starts no
\* conversion and leaves the session as it was (same pending path, and no
\* target duration if none was stored).
C5_InvalidDurationReprompts ==
  (h.op = "text" /\ h.pre.file_path # NoPath /\ ~ValidDurationText(h.text)) =>
     /\ Returned
     /\ ~ConversionAttempted
     /\ h.temp_dir = NoPath
     /\ user_data[h.who] = h.pre
     /\ h.msgs = (IF ParseInt(h.text).ok THEN <<"range_prompt">> ELSE <<"number_prompt">>)

C5_Witness ==
  /\ Returned
  /\ h.op = "text"
  /\ h.pre.file_path # NoPath
  /\ h.pre.target_duration = NoDuration
  /\ h.text = <<"9", "9", "9", "9">>
  /\ h.msgs = <<"range_prompt">>

\* ------------------------------------------------------------------ C6
\* C6: when convert_to_voice runs the transcoder for a target duration d in
\* [MIN_DURATION, MAX_DURATION] on an input of actual duration A, the trim
\* length it passes is min(d, A): at most d, at most A, and one of the two.
C6_TrimIsMin ==
  (h.pc = "ffmpeg" /\ h.target >= MIN_DURATION /\ h.target <= MAX_DURATION) =>
     LET A == fs[h.input_path].input
     IN  /\ h.trim_end <= h.target
         /\ h.trim_end <= A
         /\ h.trim_end \in {h.target, A}

C6_Witness ==
  /\ h.pc = "ffmpeg"
  /\ fs[h.input_path].input < h.target
  /\ h.trim_end = fs[h.input_path].input

\* ------------------------------------------------------------------ C7
\* C7: when the upload was downloaded and the inspector then fails to give
\* its duration, the upload handler reports a processing error, does not
\* prompt for a duration, and leaves the session Idle.
C7_ProbeFailureResets ==
  (/\ Returned
   /\ h.op = "audio"
   /\ h.downloaded
   /\ h.probe \in {"unparsable", "nonzero", "timeout", "oserror"})
  => /\ ~Contains(h.msgs, "prompt_duration")
     /\ ~Contains(h.msgs, "prompt_duration_None")
     /\ (Contains(h.msgs, "failed") \/ Contains(h.msgs, "error_generic"))
     /\ IsIdle(user_data[h.who])

\* ------------------------------------------------------------------ C8
\* C8: when handle_audio or handle_text fails (the conversion fails or an
\* exception is raised), the user is sent a fixed plain-language message,
\* never the text of the exception, and the session is reset.
C8_NoRawErrorOnFailure ==
  (Returned /\ h.op \in {"audio", "text"} /\ (h.raised \/ h.conv = "failed")) =>
     /\ ~Contains(h.msgs, "error_raw")
     /\ (Contains(h.msgs, "failed") \/ Contains(h.msgs, "error_generic"))
     /\ IsIdle(user_data[h.who])

\* ------------------------------------------------------------------ C9
\* C9: while one participant's handler is inside media inspection or
\* transcoding, some event of another participant can be handled.
C9_OthersNotBlocked ==
  h.pc \in {"probe", "ffmpeg"} =>
     \E q \in Participants \ {h.who} : ENABLED HandleEvent(q)

\* ------------------------------------------------------------------ C10
\* C10: once a handler has returned, on whatever path, no temporary
\* directory exists.
C10_TempDirsRemoved ==
  Free => \A d \in Dirs : ~fs[d].exists

C10_Witness ==
  /\ Returned
  /\ h.temp_dir # NoPath
  /\ h.raised
  /\ ~fs[h.temp_dir].exists

\* ------------------------------------------------------------------ C11
\* C11: an upload whose size exceeds 50 MiB is answered with an error
\* message (too large, or busy when the session is already processing), is
\* never downloaded, inspected or converted, creates no temporary directory,
\* and leaves the session as it was before the handler.
C11_OversizedRejected ==
  (h.op = "audio" /\ h.size > 50 * 1024 * 1024) =>
     /\ Returned
     /\ h.msgs \in {<<"too_large">>, <<"busy">>}
     /\ ~h.downloaded
     /\ h.temp_dir = NoPath
     /\ h.probe = "none"
     /\ ~ConversionAttempted
     /\ user_data[h.who] = h.pre

C11_Witness ==
  /\ Returned
  /\ h.op = "audio"
  /\ h.size = MaxUploadBytes + 1
  /\ h.pre.file_path # NoPath
  /\ ~h.pre.processing
  /\ h.msgs = <<"too_large">>

\* ------------------------------------------------------------------ C12
\* C12: a text handled while the session stores no pending file path is
\* answered with the send-a-file-first message only, starts no conversion
\* and leaves the session as it was, whatever the text, a valid duration
\* included.
C12_TextWithoutFile ==
  (h.op = "text" /\ h.pre.file_path = NoPath) =>
     /\ Returned
     /\ h.msgs = <<"send_file_first">>
     /\ ~ConversionAttempted
     /\ h.temp_dir = NoPath
     /\ user_data[h.who] = h.pre

C12_Witness ==
  /\ Returned
  /\ h.op = "text"
  /\ h.pre.file_path = NoPath
  /\ ValidDurationText(h.text)
  /\ h.msgs = <<"send_file_first">>

\* ------------------------------------------------------------------ C13
\* C13: convert_to_voice returns False when the inspector gave no duration,
\* when the transcoder exited non-zero, timed out or could not be started,
\* and when it exited zero but the output file is missing or empty; it
\* returns True only when the inspector gave a duration, the transcoder
\* exited zero and the output file exists and is not empty.
C13_ConvertResult ==
  (ConversionAttempted /\ h.pc \in {"ffmpeg", "done"}) =>
     /\ (h.probe # "ok") => (h.conv = "failed" /\ h.ffmpeg = "none")
     /\ (h.ffmpeg \in {"nonzero", "timeout", "oserror"}) => h.conv = "failed"
     /\ (h.ffmpeg \in {"empty", "missing"}) => h.conv = "failed"
     /\ (h.out = NoFile \/ h.out = 0) => h.conv # "ok"
     /\ (h.conv = "ok") => (h.probe = "ok" /\ h.ffmpeg = "ok" /\ h.out > 0)
     /\ Returned => h.conv \in {"ok", "failed"}

C13_Witness ==
  /\ Returned
  /\ ConversionAttempted
  /\ h.probe = "ok"
  /\ h.ffmpeg = "empty"
  /\ h.conv = "failed"

\* ------------------------------------------------------------- statuses
\* a conversion is running for participant p
Converting(p) == h.who = p /\ h.pc \in {"probe", "ffmpeg"} /\ h.site = "convert"

\* the status of a session between conversions, by the test the bot itself
\* makes for "an operation is in progress" (bot.py:84, bot.py:94)
StatusOf(s) == IF s.processing THEN "AwaitingDuration" ELSE "Idle"

Status(p) == IF Converting(p) THEN "Processing" ELSE StatusOf(user_data[p])

InRangeClaim(v) == v >= MIN_DURATION /\ v <= MAX_DURATION

\* ------------------------------------------------------------------ C14
\* C14: a failed run of ffprobe or ffmpeg (non-zero exit, timeout,
\* unparsable output, failure to launch) never leaves get_duration or
\* convert_to_voice as an exception: the handler sees None or False.
C14_ToolFailuresCaught ==
  (\/ h.probe \in {"unparsable", "nonzero", "timeout", "oserror"}
   \/ h.ffmpeg \in {"nonzero", "timeout", "oserror"})
  => ~h.raised

\* ------------------------------------------------------------------ C15
\* C15: after any sequence of events, a session stores a pending file path
\* exactly when its status is AwaitingDuration; an Idle session stores none.
C15_PendingIffAwaiting ==
  Free => \A p \in Participants :
            (user_data[p].file_path # NoPath) <=> (Status(p) = "AwaitingDuration")

\* ------------------------------------------------------------------ C16
\* C16: a conversion is started only by a valid in-range duration text
\* handled in AwaitingDuration, or by a file upload handled in Idle with a
\* target duration already stored.
C16_ProcessingEntry ==
  ConversionAttempted =>
     \/ /\ h.op = "text"
        /\ StatusOf(h.pre) = "AwaitingDuration"
        /\ ValidDurationText(h.text)
     \/ /\ h.op = "audio"
        /\ StatusOf(h.pre) = "Idle"
        /\ h.pre.target_duration # NoDuration

\* ------------------------------------------------------------------ C17
\* C17: a stored target duration is passed to at most one conversion
\* attempt: no conversion uses a stored value that an earlier attempt
\* already used, so no later upload is converted with the duration given
\* for an earlier file.
C17_DurationConsumedOnce ==
  ConversionAttempted => ~h.reused

\* ------------------------------------------------------------------ C18
\* C18: every stored target duration, and every target duration passed to
\* convert_to_voice by either handler, lies in [MIN_DURATION, MAX_DURATION].
C18_TargetInRange ==
  /\ \A p \in Participants :
       user_data[p].target_duration # NoDuration => InRangeClaim(user_data[p].target_duration)
  /\ ConversionAttempted => InRangeClaim(h.target)

C18_Witness ==
  /\ h.op = "audio"
  /\ ConversionAttempted
  /\ h.target = MAX_DURATION
  /\ user_data[h.who].target_duration = MAX_DURATION

\* ------------------------------------------------------------------ C19
\* C19: the file at a stored pending file path exists, and the input file
\* exists while handle_text has convert_to_voice work on it.
C19_PendingFileExists ==
  /\ \A p \in Participants :
       user_data[p].file_path # NoPath => FileExists(user_data[p].file_path)
  /\ (h.op = "text" /\ Converting(h.who)) => FileExists(h.input_path)

\* ------------------------------------------------------------------ C20
\* C20: the duration annotation and the caption of a delivered voice reply
\* equal the length of the audio delivered, also for an input shorter than
\* the requested duration.
C20_AnnotationMatchesLength ==
  h.voice.sent =>
     /\ h.voice.duration = h.voice.length
     /\ h.voice.caption = h.voice.length

\* ------------------------------------------------------------------ C21
\* C21: a step of a handler of participant p (an upload, a text, a cancel,
\* or the continuation of p's handler after a tool call) changes only p's
\* session: the session of every other participant is the same after the
\* step as before it, under every interleaving of the participants' events.
C21_SessionsIsolated ==
  [][\A q \in Participants : q # h'.who => user_data'[q] = user_data[q]]_vars

C21_Witness ==
  /\ Returned
  /\ h.who = 2
  /\ h.op \in {"audio", "text", "cancel"}
  /\ user_data[2] # h.pre
  /\ user_data[1].processing
  /\ user_data[1].file_path # NoPath

====
